---- MODULE Spec2Model ----
(***************************************************************************)
(* Model of the real-time ticker stream pipeline:                          *)
(*   - the data worker (Event Source): startUpdates / stopUpdates /        *)
(*     config / getSymbols and its setInterval emission callback;          *)
(*   - the useDataStream hook (core): addToBuffer (coalescing),            *)
(*     flushBuffer (backpressure, minimum interval, batched flush),        *)
(*     handleWorkerMessage, the flush-loop effect, start / stop /          *)
(*     updateConfig / resetStats.                                          *)
(* The two sides exchange messages over two FIFO channels (postMessage).   *)
(* The main thread is a single event loop: every handler, frame callback   *)
(* and timer callback runs to completion, so each is one action.  A state  *)
(* update and the effects React runs because of it are part of the action  *)
(* of the handler that made the update.                                    *)
(***************************************************************************)
EXTENDS Integers, Sequences, FiniteSets, Bags, TLC

\* ------------------------------------------------------------------ bounds
MaxTime == 2      \* the clock (performance.now / Date.now) runs 0..MaxTime
MaxEvents == 2    \* number of update events the worker generates
MaxCmds == 2      \* number of user commands (start/stop/configure/reset)
MaxInFlight == 1  \* worker-to-core messages not yet handled
MaxThreshold == 8   \* thresholds 1..MaxThreshold in the throttle evaluation
MaxBufferSize == 16 \* buffer sizes 0..MaxBufferSize in the throttle evaluation
MaxCoreEvents == 2  \* events fed to the hook when it is modelled alone
MaxClockTicks == 5  \* the clock of the hook alone runs 0..MaxClockTicks * 200 ms
MaxScroll == 7      \* scroll positions 0..MaxScroll of the list view

\* --------------------------------------------------------- value domains
SYMBOLS == <<"AAPL", "GOOGL">>  \* the first symbols of the worker's list
Symbols == {SYMBOLS[i] : i \in 1..Len(SYMBOLS)}
Prices == {100, 105}
RateValues == {100, 200}
IntervalValues == {1, 2}
ThresholdValues == {2, 3}
RandValues == {0, 1, 2, 3}      \* Math.random() in quarters: 0, 1/4, 1/2, 3/4
Absent == 0                     \* a field missing from an object (undefined)
NoKey == "undefined"            \* the Map key of an update without a symbol
Keys == Symbols \cup {NoKey}
FlashMs == 600                  \* a flash older than this is cleared
DecayIntervalMs == 200          \* period of the flash-decay timer
BatchesPerSecond == 100         \* 1000 / batchInterval
BurstMultiplier == 3
ScenarioThreshold == 500        \* the threshold the application configures
ScenarioSizes == {250, 400}     \* buffer sizes of the documented scenario
Thresholds == (1..MaxThreshold) \cup {ScenarioThreshold}
BufferSizes == (0..MaxBufferSize) \cup ScenarioSizes
RowHeights == {2, 3}            \* rowHeight values of the list view
ViewportHeights == {1, 2, 4}    \* containerHeight values of the list view
Overscans == {0, 1}             \* overscan values of the list view

VARIABLES
  \* worker (Event Source)
  wIsRunning,      \* isRunning
  updateInterval,  \* TRUE iff updateInterval holds a timer handle
  wTimers,         \* number of live setInterval timers
  wConfig,         \* config {updatesPerSecond, burstEnabled, burstMultiplier}
  wPrices,         \* prices[symbol]
  nextId,          \* number of events generated so far + 1 (unique id)
  \* channels
  toWorker,        \* commands posted to the worker, FIFO
  toMain,          \* messages posted to the core, FIFO
  \* core (useDataStream)
  config,          \* StreamConfig
  tickers,         \* Map symbol -> TickerState, in insertion order
  stats,           \* published ThrottleState part of StreamStats
  isRunning,
  isWorkerReady,
  bufferRef,       \* Map symbol -> TickerUpdate, in insertion order
  statsRef,        \* {received, rendered, coalesced}
  lastFlushRef,
  rafIdRef,        \* TRUE iff rafIdRef.current holds a frame id (is not null)
  rafPending,      \* bag of requested animation-frame callbacks not yet run
  timers,          \* bag of setTimeout(flushBuffer, d) timers not yet fired
  now,             \* the clock
  cmds,            \* user commands issued so far
  \* history variables
  window,          \* per symbol: events ingested since the last flush
  maxApplied,      \* largest id of an event ever applied to tickers
  resetCarry,      \* entries pending at the most recent resetStats
  lastTick,        \* the path the most recent scheduler tick took
  sawEmptyConfig,  \* updateConfig({}) has been called
  \* the list view (VirtualList in TickerTable)
  view,            \* scrollTop, containerHeight and the overscan prop
  \* the totals of StreamStats the dashboard shows
  totals           \* totalReceived, totalRendered, coalesced

vars == <<wIsRunning, updateInterval, wTimers, wConfig, wPrices, nextId,
          toWorker, toMain, config, tickers, stats, isRunning, isWorkerReady,
          bufferRef, statsRef, lastFlushRef, rafIdRef, rafPending, timers,
          now, cmds, window, maxApplied, resetCarry, lastTick,
          sawEmptyConfig, view, totals>>

workerVars == <<wIsRunning, updateInterval, wTimers, wConfig, wPrices, nextId>>
loopVars == <<rafIdRef, rafPending, timers>>
coreData == <<tickers, stats, bufferRef, statsRef, lastFlushRef>>
history == <<window, maxApplied, resetCarry, lastTick>>
tickHistory == <<window, maxApplied, lastTick>>
uiVars == <<sawEmptyConfig, view, totals>>

\* ------------------------------------------------------------ Map helpers
\* A JavaScript Map keyed by symbol, kept as the sequence of its values in
\* insertion order.
MapHas(m, k) == \E i \in 1..Len(m) : m[i].symbol = k

MapIndex(m, k) == CHOOSE i \in 1..Len(m) : m[i].symbol = k

MapGet(m, k) == m[MapIndex(m, k)]

\* MapSet with a fault: an existing key keeps its old value
MapSetKeepFirst(m, e) ==
  IF MapHas(m, e.symbol) THEN m ELSE Append(m, e)

\* Map.set: replaces the value of an existing key in place, appends otherwise
MapSet(m, e) ==
  IF MapHas(m, e.symbol)
    THEN [m EXCEPT ![MapIndex(m, e.symbol)] = e]
    ELSE Append(m, e)

MapKeys(m) == {m[i].symbol : i \in 1..Len(m)}

MaxOf(S) == CHOOSE x \in S : \A y \in S : y <= x

\* --------------------------------------------------------------- messages
Msg(t, r, d, g) == [type |-> t, running |-> r, data |-> d, afterStop |-> g]

\* ----------------------------------------------------- worker: generation
\* the worker's config as the script sets it
WorkerDefaultConfig ==
  [updatesPerSecond |-> 100, burstEnabled |-> FALSE,
   burstMultiplier |-> BurstMultiplier]

\* generateUpdate: a new random price for the symbol and a unique id
GenerateUpdate(symbol, price, id) ==
  [symbol |-> symbol, price |-> price, id |-> id]

\* Math.ceil(effectiveRate / batchesPerSecond)
BatchSize(cfg) ==
  LET effectiveRate == IF cfg.burstEnabled
                         THEN cfg.updatesPerSecond * cfg.burstMultiplier
                         ELSE cfg.updatesPerSecond
  IN (effectiveRate + BatchesPerSecond - 1) \div BatchesPerSecond

\* all batches of n updates with ids first, first+1, ...
RECURSIVE Batches(_, _)
Batches(n, first) ==
  IF n = 0 THEN {<<>>}
  ELSE {<<GenerateUpdate(s, p, first)>> \o rest :
          s \in Symbols, p \in Prices, rest \in Batches(n - 1, first + 1)}

\* prices[symbol] after generating the batch: the price of its last update
RECURSIVE PricesAfter(_, _)
PricesAfter(prices, batch) ==
  IF batch = <<>> THEN prices
  ELSE PricesAfter([prices EXCEPT ![Head(batch).symbol] = Head(batch).price],
                   Tail(batch))

\* --------------------------------------------------- worker: the commands
\* StartUpdates with a fault: the isRunning guard is missing
StartUpdatesNoGuard ==
  /\ wIsRunning' = TRUE
  /\ updateInterval' = TRUE
  /\ wTimers' = wTimers + 1
  /\ toMain' = Append(toMain, Msg("status", TRUE, <<>>, FALSE))

\* StartUpdates with a fault: the status message is not posted
StartUpdatesSilent ==
  IF wIsRunning
    THEN UNCHANGED <<wIsRunning, updateInterval, wTimers, toMain>>
    ELSE /\ wIsRunning' = TRUE
         /\ updateInterval' = TRUE
         /\ wTimers' = wTimers + 1
         /\ UNCHANGED toMain

\* startUpdates
StartUpdates ==
  IF wIsRunning
    THEN UNCHANGED <<wIsRunning, updateInterval, wTimers, toMain>>
    ELSE /\ wIsRunning' = TRUE
         /\ updateInterval' = TRUE
         /\ wTimers' = wTimers + 1
         /\ toMain' = Append(toMain, Msg("status", TRUE, <<>>, FALSE))

\* StopUpdates with a fault: clearInterval is missing
StopUpdatesKeepTimer ==
  IF ~wIsRunning
    THEN UNCHANGED <<wIsRunning, updateInterval, wTimers, toMain>>
    ELSE /\ wIsRunning' = FALSE
         /\ UNCHANGED <<wTimers, updateInterval>>
         /\ toMain' = Append(toMain, Msg("status", FALSE, <<>>, FALSE))

\* stopUpdates
StopUpdates ==
  IF ~wIsRunning
    THEN UNCHANGED <<wIsRunning, updateInterval, wTimers, toMain>>
    ELSE /\ wIsRunning' = FALSE
         /\ IF updateInterval
              THEN wTimers' = wTimers - 1 /\ updateInterval' = FALSE
              ELSE UNCHANGED <<wTimers, updateInterval>>
         /\ toMain' = Append(toMain, Msg("status", FALSE, <<>>, FALSE))

\* self.onmessage, case 'start'
WorkerStart ==
  /\ toWorker # <<>> /\ Head(toWorker).type = "start"
  /\ toWorker' = Tail(toWorker)
  /\ StartUpdates
  /\ UNCHANGED <<wConfig, wPrices, nextId, config, isRunning, isWorkerReady,
                 coreData, loopVars, now, cmds, uiVars, history>>

\* self.onmessage, case 'stop'
WorkerStop ==
  /\ toWorker # <<>> /\ Head(toWorker).type = "stop"
  /\ toWorker' = Tail(toWorker)
  /\ StopUpdates
  /\ UNCHANGED <<wConfig, wPrices, nextId, config, isRunning, isWorkerReady,
                 coreData, loopVars, now, cmds, uiVars, history>>

\* const { type, ...params } = event.data
Params(data) == [f \in DOMAIN data \ {"type"} |-> data[f]]

\* { ...cfg, ...params }
Spread(cfg, params) ==
  [f \in DOMAIN cfg \cup DOMAIN params |->
     IF f \in DOMAIN params THEN params[f] ELSE cfg[f]]

\* self.onmessage, case 'config': config = { ...config, ...params }
WorkerConfig ==
  /\ toWorker # <<>> /\ Head(toWorker).type = "config"
  /\ toWorker' = Tail(toWorker)
  /\ wConfig' = Spread(wConfig, Params(Head(toWorker)))
  /\ toMain' = Append(toMain, Msg("configUpdated", FALSE, <<>>, FALSE))
  /\ UNCHANGED <<wIsRunning, updateInterval, wTimers, wPrices, nextId, config,
                 isRunning, isWorkerReady, coreData, loopVars, now, cmds, uiVars,
                 history>>

\* self.onmessage, case 'getSymbols': the current price of every symbol
SymbolsSnapshot ==
  [i \in 1..Len(SYMBOLS) |->
     [symbol |-> SYMBOLS[i], price |-> wPrices[SYMBOLS[i]], id |-> Absent]]

WorkerGetSymbols ==
  /\ toWorker # <<>> /\ Head(toWorker).type = "getSymbols"
  /\ toWorker' = Tail(toWorker)
  /\ toMain' = Append(toMain, Msg("symbols", FALSE, SymbolsSnapshot, FALSE))
  /\ UNCHANGED <<workerVars, config, isRunning, isWorkerReady, coreData,
                 loopVars, now, cmds, uiVars, history>>

\* the setInterval callback of startUpdates: one batch per firing of a live
\* interval timer.  afterStop records whether the worker was stopped when
\* the batch was emitted.
WorkerEmit ==
  /\ wTimers > 0
  /\ Len(toMain) < MaxInFlight
  /\ nextId + BatchSize(wConfig) - 1 <= MaxEvents
  /\ \E batch \in Batches(BatchSize(wConfig), nextId) :
       /\ wPrices' = PricesAfter(wPrices, batch)
       /\ toMain' = Append(toMain, Msg("updates", FALSE, batch, ~wIsRunning))
  /\ nextId' = nextId + BatchSize(wConfig)
  /\ UNCHANGED <<wIsRunning, updateInterval, wTimers, wConfig, toWorker,
                 config, isRunning, isWorkerReady, coreData, loopVars, now,
                 cmds, uiVars, history>>

\* ------------------------------------------------------ core: coalescing
NoWindow == [k \in Keys |-> [count |-> 0, coalesced |-> 0, lastId |-> Absent,
                                lastPrice |-> Absent]]

\* AddStep with a fault: every update counts as coalesced
AddStepCountAll(acc, update) ==
  LET w == acc.win[update.symbol]
  IN [buf |-> MapSet(acc.buf, update),
      coalescedCount |-> acc.coalescedCount + 1,
      win |-> [acc.win EXCEPT ![update.symbol] =
                 [count |-> w.count + 1,
                  coalesced |-> w.coalesced + 1,
                  lastId |-> update.id,
                  lastPrice |-> update.price]]]

\* one iteration of updates.forEach in addToBuffer.  acc.coalescedCount is
\* the local counter; acc.win attributes every increment to its symbol.
AddStep(acc, update) ==
  LET hit == MapHas(acc.buf, update.symbol)
      w == acc.win[update.symbol]
  IN [buf |-> MapSet(acc.buf, update),
      coalescedCount |-> acc.coalescedCount + (IF hit THEN 1 ELSE 0),
      win |-> [acc.win EXCEPT ![update.symbol] =
                 [count |-> w.count + 1,
                  coalesced |-> w.coalesced + (IF hit THEN 1 ELSE 0),
                  lastId |-> update.id,
                  lastPrice |-> update.price]]]

RECURSIVE AddAll(_, _)
AddAll(acc, updates) ==
  IF updates = <<>> THEN acc
  ELSE AddAll(AddStep(acc, Head(updates)), Tail(updates))

\* addToBuffer(updates)
AddToBuffer(updates) ==
  LET r == AddAll([buf |-> bufferRef, coalescedCount |-> 0, win |-> window],
                  updates)
  IN /\ bufferRef' = r.buf
     /\ statsRef' = [statsRef EXCEPT
                       !.received = @ + Len(updates),
                       !.coalesced = @ + r.coalescedCount]
     /\ window' = r.win

\* ---------------------------------------------------- core: backpressure
RECURSIVE Gcd(_, _)
Gcd(a, b) == IF b = 0 THEN a ELSE Gcd(b, a % b)

\* a rational number num/den, den > 0, in lowest terms
Frac(num, den) ==
  LET g == Gcd(IF num < 0 THEN -num ELSE num, den)
  IN [num |-> num \div g, den |-> den \div g]

FracLess(x, y) == x.num * y.den < y.num * x.den

\* ThrottleLevel with a fault: the operands of the subtraction are swapped
ThrottleLevelSwapped(bufferSize, T) ==
  LET raw == Frac(T - 2 * bufferSize, T)
      lo == IF FracLess(raw, Frac(0, 1)) THEN Frac(0, 1) ELSE raw
  IN IF FracLess(Frac(1, 1), lo) THEN Frac(1, 1) ELSE lo

\* ThrottleLevel with a fault: Math.min(1, ...) is missing
ThrottleLevelNoClamp(bufferSize, T) ==
  LET raw == Frac(2 * bufferSize - T, T)
  IN IF FracLess(raw, Frac(0, 1)) THEN Frac(0, 1) ELSE raw

\* Math.min(1, Math.max(0, (bufferSize - T*0.5) / (T*0.5))), for T > 0
ThrottleLevel(bufferSize, T) ==
  LET raw == Frac(2 * bufferSize - T, T)
      lo == IF FracLess(raw, Frac(0, 1)) THEN Frac(0, 1) ELSE raw
  IN IF FracLess(Frac(1, 1), lo) THEN Frac(1, 1) ELSE lo

\* IsThrottling with a fault: >= instead of >
IsThrottlingAtHalf(bufferSize, T) == 2 * bufferSize >= T

\* bufferSize > T * 0.5
IsThrottling(bufferSize, T) == 2 * bufferSize > T

\* the ThrottleState a tick computes: bufferSize, isThrottling, throttleLevel
Evaluate(bufferSize, T) ==
  [bufferSize |-> bufferSize,
   isThrottling |-> IsThrottling(bufferSize, T),
   throttleLevel |-> ThrottleLevel(bufferSize, T)]

\* SkipCycle with a fault: the throttleLevel > 0.5 test is missing
SkipCycleNoFloor(throttleLevel, rnd) ==
  FracLess(Frac(rnd, 4), Frac(throttleLevel.num, 2 * throttleLevel.den))

\* SkipCycle with a fault: every cycle is skipped when throttleLevel > 0.5
SkipCycleAlways(throttleLevel, rnd) ==
  FracLess(Frac(1, 2), throttleLevel)

\* throttleLevel > 0.5 && Math.random() < throttleLevel * 0.5,
\* with Math.random() = rnd/4
SkipCycle(throttleLevel, rnd) ==
  /\ FracLess(Frac(1, 2), throttleLevel)
  /\ FracLess(Frac(rnd, 4), Frac(throttleLevel.num, 2 * throttleLevel.den))

\* --------------------------------------------------------- core: flushing
\* ApplyUpdate with a fault: the two directions are swapped
ApplyUpdateInverted(tk, update) ==
  LET previousPrice == IF MapHas(tk, update.symbol)
                         THEN MapGet(tk, update.symbol).price
                         ELSE update.price
      flashDirection == IF update.price > previousPrice THEN "down"
                        ELSE IF update.price < previousPrice THEN "up"
                        ELSE "null"
  IN MapSet(tk, [symbol |-> update.symbol, price |-> update.price,
                 id |-> update.id,
                 previousPrice |-> previousPrice,
                 flashDirection |-> flashDirection,
                 lastUpdated |-> now])

\* a > b in JavaScript: false when an operand is undefined
Greater(a, b) == a # Absent /\ b # Absent /\ a > b

\* the body of updates.forEach in the setTickers updater;
\* previousPrice = existing?.price ?? update.price
ApplyUpdate(tk, update) ==
  LET previousPrice == IF /\ MapHas(tk, update.symbol)
                          /\ MapGet(tk, update.symbol).price # Absent
                         THEN MapGet(tk, update.symbol).price
                         ELSE update.price
      flashDirection == IF Greater(update.price, previousPrice) THEN "up"
                        ELSE IF Greater(previousPrice, update.price) THEN "down"
                        ELSE "null"
  IN MapSet(tk, [symbol |-> update.symbol, price |-> update.price,
                 id |-> update.id,
                 previousPrice |-> previousPrice,
                 flashDirection |-> flashDirection,
                 lastUpdated |-> now])

RECURSIVE ApplyAll(_, _)
ApplyAll(tk, updates) ==
  IF updates = <<>> THEN tk
  ELSE ApplyAll(ApplyUpdate(tk, Head(updates)), Tail(updates))

\* Bags of pending callbacks.  The ids the browser hands out are used for
\* one thing only, cancelAnimationFrame(rafIdRef.current), so a pending
\* frame callback carries "latest": whether its id is the one rafIdRef holds.
BagAdd(B, e) == B (+) SetToBag({e})
BagRemove(B, e) == B (-) SetToBag({e})

\* the pending frames once rafIdRef.current has been overwritten
Outdated(rafs) ==
  LET old == BagToSet(rafs)
      new == {[r EXCEPT !.latest = FALSE] : r \in old}
  IN [x \in new |->
        CopiesIn(x, rafs) + CopiesIn([x EXCEPT !.latest = TRUE], rafs)]

\* Rearm with a fault: no frame callback is requested
RearmNothing(I, T, delay, rafs) ==
  /\ rafIdRef' = rafIdRef
  /\ rafPending' = rafs

\* rafIdRef.current = requestAnimationFrame(() => setTimeout(flushBuffer, delay))
\* by the flushBuffer closure that captured bufferIntervalMs = I and
\* throttleThreshold = T
Rearm(I, T, delay, rafs) ==
  /\ rafIdRef' = TRUE
  /\ rafPending' = BagAdd(Outdated(rafs),
                          [interval |-> I, threshold |-> T, delay |-> delay,
                           latest |-> TRUE])

\* now - lastFlushRef.current < config.bufferIntervalMs
TooSoon(I) == now - lastFlushRef < I

\* ClearBuffer with a fault: the buffer is not cleared
ClearBufferNot == UNCHANGED bufferRef

\* bufferRef.current.clear()
ClearBuffer == bufferRef' = <<>>

\* CountRendered with a fault: the counters are kept per flush window
CountRenderedWindowed(updates) ==
  statsRef' = [received |-> 0, rendered |-> Len(updates), coalesced |-> 0]

\* CountRendered with a fault: one per flush instead of one per update
CountRenderedOne(updates) ==
  statsRef' = [statsRef EXCEPT !.rendered = @ + 1]

\* statsRef.current.rendered += updates.length
CountRendered(updates) ==
  statsRef' = [statsRef EXCEPT !.rendered = @ + Len(updates)]

\* flushBuffer, the closure with bufferIntervalMs = I and throttleThreshold = T;
\* rnd is the value of Math.random(),
\* rafs and tmrs the pending frame callbacks and timers when it is called
FlushBuffer(I, T, rnd, rafs, tmrs) ==
  LET bufferSize == Len(bufferRef)
      throttle == Evaluate(bufferSize, T)
      throttleLevel == throttle.throttleLevel
      updates == bufferRef
  IN /\ timers' = tmrs
     /\ IF SkipCycle(throttleLevel, rnd)
          THEN /\ Rearm(I, T, I, rafs)
               /\ lastTick' = "skip"
               /\ UNCHANGED <<coreData, window, maxApplied>>
        ELSE IF TooSoon(I)
          THEN /\ Rearm(I, T, I - (now - lastFlushRef), rafs)
               /\ lastTick' = "defer"
               /\ UNCHANGED <<coreData, window, maxApplied>>
        ELSE IF bufferSize = 0
          THEN /\ Rearm(I, T, I, rafs)
               /\ lastTick' = "empty"
               /\ UNCHANGED <<coreData, window, maxApplied>>
        ELSE /\ lastFlushRef' = now
             /\ ClearBuffer
             /\ CountRendered(updates)
             /\ tickers' = ApplyAll(tickers, updates)
             /\ stats' = throttle
             /\ Rearm(I, T, I, rafs)
             /\ lastTick' = "flush"
             /\ window' = NoWindow
             /\ maxApplied' = MaxOf({maxApplied} \cup
                                     {updates[i].id : i \in 1..Len(updates)})

\* cleanup of the flush-loop effect: cancelAnimationFrame(rafIdRef.current)
CancelFrame(rafs) ==
  IF rafIdRef
    THEN LET keep == {r \in BagToSet(rafs) : ~r.latest}
         IN [r \in keep |-> CopiesIn(r, rafs)]
    ELSE rafs

\* the flush-loop effect after a render in which isRunning or flushBuffer
\* changed: the previous cleanup, then flushBuffer() if running
FlushLoopEffect(running, cfg) ==
  IF running
    THEN \E rnd \in RandValues :
           FlushBuffer(cfg.bufferIntervalMs, cfg.throttleThreshold, rnd,
                       CancelFrame(rafPending), timers)
    ELSE /\ rafPending' = CancelFrame(rafPending)
         /\ UNCHANGED <<rafIdRef, timers, coreData, tickHistory>>

\* ------------------------------------------------- core: worker messages
Cmd(t, cfg) == [type |-> t, updatesPerSecond |-> cfg.updatesPerSecond,
                burstEnabled |-> cfg.burstEnabled]

\* HandleReady with a fault: the config effect does not depend on
\* isWorkerReady, so nothing is posted for the configuration set before
HandleReadyNoConfig ==
  /\ toMain # <<>> /\ Head(toMain).type = "ready"
  /\ toMain' = Tail(toMain)
  /\ isWorkerReady' = TRUE
  /\ toWorker' = toWorker \o <<Cmd("getSymbols", config)>>
  /\ UNCHANGED <<workerVars, config, isRunning, coreData, loopVars, now,
                 cmds, uiVars, history>>

\* handleWorkerMessage, case 'ready'; the config effect then runs because
\* isWorkerReady changed
HandleReady ==
  /\ toMain # <<>> /\ Head(toMain).type = "ready"
  /\ toMain' = Tail(toMain)
  /\ isWorkerReady' = TRUE
  /\ toWorker' = toWorker \o <<Cmd("getSymbols", config)>>
                   \o (IF ~isWorkerReady THEN <<Cmd("config", config)>> ELSE <<>>)
  /\ UNCHANGED <<workerVars, config, isRunning, coreData, loopVars, now, cmds, uiVars,
                 history>>

\* handleWorkerMessage, case 'status': setIsRunning(message.running); the
\* flush-loop effect runs when isRunning changed
HandleStatus ==
  /\ toMain # <<>> /\ Head(toMain).type = "status"
  /\ toMain' = Tail(toMain)
  /\ isRunning' = Head(toMain).running
  /\ UNCHANGED <<workerVars, toWorker, config, isWorkerReady, now, cmds, uiVars,
                 resetCarry>>
  /\ IF isRunning' # isRunning
       THEN FlushLoopEffect(isRunning', config)
       ELSE UNCHANGED <<loopVars, coreData, tickHistory>>

\* handleWorkerMessage, case 'updates': addToBuffer(message.data)
HandleUpdates ==
  /\ toMain # <<>> /\ Head(toMain).type = "updates"
  /\ toMain' = Tail(toMain)
  /\ AddToBuffer(Head(toMain).data)
  /\ UNCHANGED <<workerVars, toWorker, config, isRunning, isWorkerReady,
                 tickers, stats, lastFlushRef, loopVars, now, cmds, uiVars,
                 maxApplied, resetCarry, lastTick>>

\* handleWorkerMessage, case 'symbols': a new Map built from the snapshot
InitialTickers(data) ==
  LET RECURSIVE Build(_, _)
      Build(m, d) ==
        IF d = <<>> THEN m
        ELSE Build(MapSet(m, [symbol |-> Head(d).symbol, price |-> Head(d).price,
                              id |-> Head(d).id,
                              previousPrice |-> Absent,
                              flashDirection |-> "null",
                              lastUpdated |-> now]),
                   Tail(d))
  IN Build(<<>>, data)

HandleSymbols ==
  /\ toMain # <<>> /\ Head(toMain).type = "symbols"
  /\ toMain' = Tail(toMain)
  /\ tickers' = InitialTickers(Head(toMain).data)
  /\ UNCHANGED <<workerVars, toWorker, config, isRunning, isWorkerReady, stats,
                 bufferRef, statsRef, lastFlushRef, loopVars, now, cmds, uiVars,
                 history>>

\* handleWorkerMessage has no case for 'configUpdated': nothing happens
HandleConfigUpdated ==
  /\ toMain # <<>> /\ Head(toMain).type = "configUpdated"
  /\ toMain' = Tail(toMain)
  /\ UNCHANGED <<workerVars, toWorker, config, isRunning, isWorkerReady,
                 coreData, loopVars, now, cmds, uiVars, history>>

\* ------------------------------------------------- core: the flush loop
\* the requestAnimationFrame callback: setTimeout(flushBuffer, delay)
FrameCallback ==
  \E r \in BagToSet(rafPending) :
    /\ rafPending' = BagRemove(rafPending, r)
    /\ timers' = BagAdd(timers, [interval |-> r.interval,
                                 threshold |-> r.threshold,
                                 due |-> now + r.delay])
    /\ UNCHANGED <<workerVars, toWorker, toMain, config, isRunning,
                   isWorkerReady, coreData, rafIdRef, now, cmds, uiVars, history>>

\* a setTimeout timer fires: flushBuffer runs (a scheduler tick)
TimerFire ==
  \E t \in BagToSet(timers) :
    /\ t.due <= now
    /\ UNCHANGED <<workerVars, toWorker, toMain, config, isRunning,
                   isWorkerReady, now, cmds, uiVars, resetCarry>>
    /\ \E rnd \in RandValues :
         FlushBuffer(t.interval, t.threshold, rnd, rafPending,
                     BagRemove(timers, t))

\* --------------------------------------------------- core: the commands
\* Start with a fault: the command is dropped while the worker is not ready
StartDropping ==
  /\ cmds < MaxCmds
  /\ cmds' = cmds + 1
  /\ toWorker' = IF isWorkerReady THEN Append(toWorker, Cmd("start", config))
                 ELSE toWorker
  /\ UNCHANGED <<workerVars, toMain, config, isRunning, isWorkerReady, coreData,
                 loopVars, now, uiVars, history>>

\* start()
Start ==
  /\ cmds < MaxCmds
  /\ cmds' = cmds + 1
  /\ toWorker' = Append(toWorker, Cmd("start", config))
  /\ UNCHANGED <<workerVars, toMain, config, isRunning, isWorkerReady, coreData,
                 loopVars, now, uiVars, history>>

\* stop()
Stop ==
  /\ cmds < MaxCmds
  /\ cmds' = cmds + 1
  /\ toWorker' = Append(toWorker, Cmd("stop", config))
  /\ UNCHANGED <<workerVars, toMain, config, isRunning, isWorkerReady, coreData,
                 loopVars, now, uiVars, history>>

\* { ...prev, ...updates }
Merge(prev, updates) ==
  [f \in DOMAIN prev |-> IF f \in DOMAIN updates THEN updates[f] ELSE prev[f]]

\* LoopDepsChanged with a fault: the effect depends on the config object,
\* which every setConfig replaces
LoopDepsAny(old, new) == TRUE

\* the dependencies of flushBuffer (and so of the flush-loop effect) changed
LoopDepsChanged(old, new) ==
  \/ new.bufferIntervalMs # old.bufferIntervalMs
  \/ new.throttleThreshold # old.throttleThreshold

\* the dependencies of the config effect changed
SourceDepsChanged(old, new) ==
  \/ new.updatesPerSecond # old.updatesPerSecond
  \/ new.burstEnabled # old.burstEnabled

\* the partial configurations a caller passes to updateConfig
Partials ==
  {[f \in {} |-> 0]}
    \cup {[bufferIntervalMs |-> v] : v \in IntervalValues}
    \cup {[throttleThreshold |-> v] : v \in ThresholdValues}
    \cup {[updatesPerSecond |-> v] : v \in RateValues}

\* updateConfig(updates), with the effects that depend on config:
\* flushBuffer is a new closure when bufferIntervalMs or throttleThreshold
\* changed (flush-loop effect); the config effect posts to the worker when
\* updatesPerSecond or burstEnabled changed and the worker is ready
UpdateConfigWith(updates) ==
  /\ cmds < MaxCmds
  /\ cmds' = cmds + 1
  /\ config' = Merge(config, updates)
  /\ IF LoopDepsChanged(config, config')
       THEN FlushLoopEffect(isRunning, config')
       ELSE UNCHANGED <<loopVars, coreData, tickHistory>>
  /\ IF isWorkerReady /\ SourceDepsChanged(config, config')
       THEN toWorker' = Append(toWorker, Cmd("config", config'))
       ELSE UNCHANGED toWorker
  /\ sawEmptyConfig' = (sawEmptyConfig \/ DOMAIN updates = {})
  /\ UNCHANGED <<workerVars, toMain, isRunning, isWorkerReady, now,
                 resetCarry, view, totals>>

UpdateConfig == \E updates \in Partials : UpdateConfigWith(updates)

\* the totals of the initial StreamStats and of resetStats
NoTotals == [totalReceived |-> 0, totalRendered |-> 0, coalesced |-> 0]

\* resetStats()
ResetStats ==
  /\ cmds < MaxCmds
  /\ statsRef' = [received |-> 0, rendered |-> 0, coalesced |-> 0]
  /\ stats' = [bufferSize |-> 0, isThrottling |-> FALSE,
               throttleLevel |-> Frac(0, 1)]
  /\ totals' = NoTotals
  /\ resetCarry' = Len(bufferRef)
  /\ cmds' = cmds + 1
  /\ UNCHANGED <<workerVars, toWorker, toMain, config, isRunning, isWorkerReady,
                 tickers, bufferRef, lastFlushRef, loopVars, now, sawEmptyConfig,
                 view, window, maxApplied, lastTick>>

\* time passes.  Within one instant of the clock every posted message is
\* delivered and handled and every requested frame callback runs; a timer
\* fires no later than the instant it is due
ClockAdvance ==
  /\ now < MaxTime
  /\ toWorker = <<>> /\ toMain = <<>>
  /\ rafPending = EmptyBag
  /\ \A t \in BagToSet(timers) : t.due > now
  /\ now' = now + 1
  /\ UNCHANGED <<workerVars, toWorker, toMain, config, isRunning, isWorkerReady,
                 coreData, loopVars, cmds, uiVars, history>>

\* ------------------------------------------------------- the list view
\* VirtualList's state after mount: scrollTop 0, the container height
\* TickerTable starts with, the default overscan
InitialView == [scrollTop |-> 0, containerHeight |-> 400, overscan |-> 5]

\* the viewport calculation of VirtualList
VisibleRange(scrollTop, itemCount, rowHeight, containerHeight, overscan) ==
  LET startIndex == MaxOf({0, (scrollTop \div rowHeight) - overscan})
      visibleCount == ((containerHeight + rowHeight - 1) \div rowHeight)
                        + overscan * 2
      endIndex == IF itemCount < startIndex + visibleCount
                    THEN itemCount ELSE startIndex + visibleCount
  IN [startIndex |-> startIndex, visibleCount |-> visibleCount,
      endIndex |-> endIndex, offsetY |-> startIndex * rowHeight]

\* what VirtualList renders in the current state: items is the hook's
\* tickers array, rowHeight the configured row height
Range ==
  VisibleRange(view.scrollTop, Len(tickers), config.rowHeight,
               view.containerHeight, view.overscan)

\* ------------------------------------------------------- specification
\* the state after the hook has mounted and the worker script has run:
\* the worker has posted 'ready'
Init ==
  /\ wIsRunning = FALSE
  /\ updateInterval = FALSE
  /\ wTimers = 0
  /\ wConfig = WorkerDefaultConfig
  /\ wPrices = [k \in Symbols |-> 100]
  /\ nextId = 1
  /\ toWorker = <<>>
  /\ toMain = <<Msg("ready", FALSE, <<>>, FALSE)>>
  /\ config = [updatesPerSecond |-> 100, bufferIntervalMs |-> 1,
               throttleThreshold |-> 2, windowSize |-> 20, rowHeight |-> 48,
               burstEnabled |-> FALSE]
  /\ tickers = <<>>
  /\ stats = [bufferSize |-> 0, isThrottling |-> FALSE,
              throttleLevel |-> Frac(0, 1)]
  /\ isRunning = FALSE
  /\ isWorkerReady = FALSE
  /\ bufferRef = <<>>
  /\ statsRef = [received |-> 0, rendered |-> 0, coalesced |-> 0]
  /\ lastFlushRef = 0
  /\ rafIdRef = FALSE
  /\ rafPending = EmptyBag
  /\ timers = EmptyBag
  /\ now = 0
  /\ cmds = 0
  /\ window = NoWindow
  /\ maxApplied = 0
  /\ resetCarry = 0
  /\ lastTick = "none"
  /\ totals = NoTotals
  /\ sawEmptyConfig = FALSE
  /\ view = InitialView

Next ==
  \/ WorkerStart
  \/ WorkerStop
  \/ WorkerConfig
  \/ WorkerGetSymbols
  \/ WorkerEmit
  \/ HandleReady
  \/ HandleStatus
  \/ HandleUpdates
  \/ HandleSymbols
  \/ HandleConfigUpdated
  \/ FrameCallback
  \/ TimerFire
  \/ Start
  \/ Stop
  \/ UpdateConfig
  \/ ResetStats
  \/ ClockAdvance

Spec == Init /\ [][Next]_vars

\* ------------------------------------- the backpressure controller alone
\* evaluate(bufferSize, threshold) applied to arbitrary buffer sizes under
\* one fixed positive threshold; stats holds the last result
InitThrottle ==
  /\ wIsRunning = FALSE
  /\ updateInterval = FALSE
  /\ wTimers = 0
  /\ wConfig = WorkerDefaultConfig
  /\ wPrices = [k \in Symbols |-> 100]
  /\ nextId = 1
  /\ toWorker = <<>>
  /\ toMain = <<>>
  /\ \E T \in Thresholds :
       /\ config = [updatesPerSecond |-> 100, bufferIntervalMs |-> 1,
                    throttleThreshold |-> T, windowSize |-> 20,
                    rowHeight |-> 48, burstEnabled |-> FALSE]
       /\ stats = Evaluate(0, T)
  /\ tickers = <<>>
  /\ isRunning = FALSE
  /\ isWorkerReady = FALSE
  /\ bufferRef = <<>>
  /\ statsRef = [received |-> 0, rendered |-> 0, coalesced |-> 0]
  /\ lastFlushRef = 0
  /\ rafIdRef = FALSE
  /\ rafPending = EmptyBag
  /\ timers = EmptyBag
  /\ now = 0
  /\ cmds = 0
  /\ window = NoWindow
  /\ maxApplied = 0
  /\ resetCarry = 0
  /\ lastTick = "none"
  /\ totals = NoTotals
  /\ sawEmptyConfig = FALSE
  /\ view = InitialView

EvaluateThrottle ==
  /\ \E b \in BufferSizes : stats' = Evaluate(b, config.throttleThreshold)
  /\ UNCHANGED <<workerVars, toWorker, toMain, config, tickers, isRunning,
                 isWorkerReady, bufferRef, statsRef, lastFlushRef, loopVars,
                 now, cmds, uiVars, history>>

NextThrottle == EvaluateThrottle

SpecThrottle == InitThrottle /\ [][NextThrottle]_vars

\* ------------------------------------------------ core: the flash decay
\* FlashExpired with a fault: the age of the flash is not tested
FlashExpiredAny(t) == t.flashDirection # "null"

\* FlashExpired with a fault: the operands of the subtraction are swapped
FlashExpiredSwapped(t) ==
  t.flashDirection # "null" /\ t.lastUpdated - now > FlashMs

\* ticker.flashDirection && now - ticker.lastUpdated > 600
FlashExpired(t) ==
  t.flashDirection # "null" /\ now - t.lastUpdated > FlashMs

\* Decay with a fault: entries with an expired flash are removed
DecayDropping(tk) ==
  SelectSeq(tk, LAMBDA t : ~FlashExpired(t))

\* the setTickers updater of the flash-decay timer
Decay(tk) ==
  IF ~\E i \in 1..Len(tk) : FlashExpired(tk[i])
    THEN tk
    ELSE [i \in 1..Len(tk) |->
            IF FlashExpired(tk[i])
              THEN [tk[i] EXCEPT !.flashDirection = "null"]
              ELSE tk[i]]

\* the callback of setInterval(..., 200) of the flash-decay effect
DecayPass ==
  /\ tickers' = Decay(tickers)
  /\ UNCHANGED <<workerVars, toWorker, toMain, config, stats, isRunning,
                 isWorkerReady, bufferRef, statsRef, lastFlushRef, loopVars,
                 now, cmds, uiVars, history>>

\* --------------------------------------------------- the hook on its own
\* The hook's data path fed by any worker: 'updates' and 'symbols' messages
\* arrive at any time, flushBuffer and the decay timer run at any time, the
\* clock is in milliseconds and advances by the decay period.
\* the (symbol, price) pairs of the events the worker generates
CoreEvents == Symbols \X Prices

\* the batches of one or two events a message carries, with ids from first
CoreBatches(events, first) ==
  {<<GenerateUpdate(e[1], e[2], first)>> : e \in events}
    \cup {<<GenerateUpdate(e1[1], e1[2], first),
            GenerateUpdate(e2[1], e2[2], first + 1)>> :
            e1 \in events, e2 \in events}

\* handleWorkerMessage, case 'updates', for a batch of the given events
CoreIngestFrom(events) ==
  /\ \E batch \in CoreBatches(events, nextId) :
       /\ nextId + Len(batch) - 1 <= MaxCoreEvents
       /\ AddToBuffer(batch)
       /\ nextId' = nextId + Len(batch)
  /\ UNCHANGED <<wIsRunning, updateInterval, wTimers, wConfig, wPrices,
                 toWorker, toMain, config, tickers, stats, isRunning,
                 isWorkerReady, lastFlushRef, loopVars, now, cmds, uiVars, maxApplied,
                 resetCarry, lastTick>>

CoreIngest == CoreIngestFrom(CoreEvents)

\* handleWorkerMessage, case 'symbols'
CoreSnapshot ==
  /\ tickers' = InitialTickers(SymbolsSnapshot)
  /\ UNCHANGED <<workerVars, toWorker, toMain, config, stats, isRunning,
                 isWorkerReady, bufferRef, statsRef, lastFlushRef, loopVars,
                 now, cmds, uiVars, history>>

\* flushBuffer runs (the closure of the current configuration)
CoreTick ==
  /\ \E rnd \in RandValues :
       FlushBuffer(config.bufferIntervalMs, config.throttleThreshold, rnd,
                   EmptyBag, EmptyBag)
  /\ UNCHANGED <<workerVars, toWorker, toMain, config, isRunning,
                 isWorkerReady, now, cmds, uiVars, resetCarry>>

\* 200 ms pass
CoreClock ==
  /\ now < MaxClockTicks * DecayIntervalMs
  /\ now' = now + DecayIntervalMs
  /\ UNCHANGED <<workerVars, toWorker, toMain, config, isRunning, isWorkerReady,
                 coreData, loopVars, cmds, uiVars, history>>

\* the hook mounted with throttleThreshold T, running
InitHook(T) ==
  /\ wIsRunning = TRUE
  /\ updateInterval = TRUE
  /\ wTimers = 1
  /\ wConfig = WorkerDefaultConfig
  /\ wPrices = [k \in Symbols |-> 100]
  /\ nextId = 1
  /\ toWorker = <<>>
  /\ toMain = <<>>
  /\ config = [updatesPerSecond |-> 100, bufferIntervalMs |-> 50,
               throttleThreshold |-> T, windowSize |-> 20, rowHeight |-> 48,
               burstEnabled |-> FALSE]
  /\ tickers = <<>>
  /\ stats = [bufferSize |-> 0, isThrottling |-> FALSE,
              throttleLevel |-> Frac(0, 1)]
  /\ isRunning = TRUE
  /\ isWorkerReady = TRUE
  /\ bufferRef = <<>>
  /\ statsRef = [received |-> 0, rendered |-> 0, coalesced |-> 0]
  /\ lastFlushRef = 0
  /\ rafIdRef = FALSE
  /\ rafPending = EmptyBag
  /\ timers = EmptyBag
  /\ now = 0
  /\ cmds = 0
  /\ window = NoWindow
  /\ maxApplied = 0
  /\ resetCarry = 0
  /\ lastTick = "none"
  /\ totals = NoTotals
  /\ sawEmptyConfig = FALSE
  /\ view = InitialView

\* the hook as the application mounts it (pages/Index.tsx)
InitCore == InitHook(ScenarioThreshold)

NextCore ==
  \/ CoreIngest
  \/ CoreSnapshot
  \/ CoreTick
  \/ DecayPass
  \/ ResetStats
  \/ CoreClock

SpecCore == InitCore /\ [][NextCore]_vars

\* the steps that read or write tickers or the clock (resetStats does not)
NextFlash ==
  \/ CoreIngest
  \/ CoreSnapshot
  \/ CoreTick
  \/ DecayPass
  \/ CoreClock

\* the decay timer keeps firing and time keeps passing
SpecCoreFair ==
  InitCore /\ [][NextFlash]_vars /\ WF_vars(DecayPass) /\ WF_vars(CoreClock)

\* ---------------------------------------- the hook fed malformed events
\* any object may arrive in an 'updates' batch: the symbol or the price may
\* be missing
AnyEvents == Keys \X (Prices \cup {Absent})

CoreIngestAny == CoreIngestFrom(AnyEvents)

NextMalformed ==
  \/ CoreIngestAny
  \/ CoreSnapshot
  \/ CoreTick
  \/ CoreClock

SpecMalformed == InitCore /\ [][NextMalformed]_vars

\* ------------------------------------------------ the list view alone
\* VirtualList over a list of 0..Len(SYMBOLS) tickers, for any row height,
\* container height and overscan, scrolled to any position
InitRange ==
  /\ wIsRunning = FALSE
  /\ updateInterval = FALSE
  /\ wTimers = 0
  /\ wConfig = WorkerDefaultConfig
  /\ wPrices = [k \in Symbols |-> 100]
  /\ nextId = 1
  /\ toWorker = <<>>
  /\ toMain = <<>>
  /\ \E rh \in RowHeights :
       config = [updatesPerSecond |-> 100, bufferIntervalMs |-> 1,
                 throttleThreshold |-> 2, windowSize |-> 20, rowHeight |-> rh,
                 burstEnabled |-> FALSE]
  /\ now = 0
  /\ \E n \in 0..Len(SYMBOLS) :
       tickers = SubSeq(InitialTickers(SymbolsSnapshot), 1, n)
  /\ stats = [bufferSize |-> 0, isThrottling |-> FALSE,
              throttleLevel |-> Frac(0, 1)]
  /\ isRunning = FALSE
  /\ isWorkerReady = TRUE
  /\ bufferRef = <<>>
  /\ statsRef = [received |-> 0, rendered |-> 0, coalesced |-> 0]
  /\ lastFlushRef = 0
  /\ rafIdRef = FALSE
  /\ rafPending = EmptyBag
  /\ timers = EmptyBag
  /\ cmds = 0
  /\ window = NoWindow
  /\ maxApplied = 0
  /\ resetCarry = 0
  /\ lastTick = "none"
  /\ totals = NoTotals
  /\ sawEmptyConfig = FALSE
  /\ \E h \in ViewportHeights, o \in Overscans :
       view = [scrollTop |-> 0, containerHeight |-> h, overscan |-> o]

\* handleScroll: setScrollTop(e.currentTarget.scrollTop)
HandleScroll ==
  /\ \E v \in 0..MaxScroll : view' = [view EXCEPT !.scrollTop = v]
  /\ UNCHANGED <<workerVars, toWorker, toMain, config, isRunning, isWorkerReady,
                 coreData, loopVars, now, cmds, history, sawEmptyConfig,
                 totals>>

\* TickerTable's updateHeight: setContainerHeight(rect.height)
Resize ==
  /\ \E h \in ViewportHeights : view' = [view EXCEPT !.containerHeight = h]
  /\ UNCHANGED <<workerVars, toWorker, toMain, config, isRunning, isWorkerReady,
                 coreData, loopVars, now, cmds, history, sawEmptyConfig,
                 totals>>

NextRange ==
  \/ HandleScroll
  \/ Resize

SpecRange == InitRange /\ [][NextRange]_vars

\* ------------------------------------- configuring with any value at all
\* values a caller may pass that no meaningful configuration has
OutOfBounds == {-1, 0}

\* the partial configurations of any caller
AnyPartials ==
  Partials
    \cup {[bufferIntervalMs |-> v] : v \in OutOfBounds}
    \cup {[throttleThreshold |-> v] : v \in OutOfBounds}
    \cup {[updatesPerSecond |-> v] : v \in OutOfBounds}

\* updateConfig(updates) for any updates
ConfigureAny == \E updates \in AnyPartials : UpdateConfigWith(updates)

\* the mounted hook before the stream is started: configure calls, the
\* worker's ready handshake and the worker's handling of what is posted
NextConfigure ==
  \/ ConfigureAny
  \/ HandleReady
  \/ WorkerGetSymbols
  \/ WorkerConfig
  \/ HandleSymbols
  \/ HandleConfigUpdated

SpecConfigure == Init /\ [][NextConfigure]_vars

\* ------------------------------------------------------- the dashboard
\* the callback of the statistics timer: the counters are copied into the
\* published StreamStats (its updatesPerSecond field, which nothing here
\* reads, is left out)
StatsInterval ==
  /\ totals' = [totalReceived |-> statsRef.received,
                totalRendered |-> statsRef.rendered,
                coalesced |-> statsRef.coalesced]
  /\ UNCHANGED <<workerVars, toWorker, toMain, config, isRunning, isWorkerReady,
                 coreData, loopVars, now, cmds, history, sawEmptyConfig, view>>

\* (num / den * 100).toFixed(1), in tenths of a percent
Percent(num, den) == (2000 * num + den) \div (2 * den)

\* StatsCard: the efficiency shown, in tenths of a percent
Efficiency(s) ==
  IF s.totalReceived > 0 THEN Percent(s.totalRendered, s.totalReceived)
  ELSE 1000

\* StatsCard: the coalesce rate shown, in tenths of a percent
CoalesceRate(s) ==
  IF s.totalReceived > 0 THEN Percent(s.coalesced, s.totalReceived)
  ELSE 0

\* the hook feeding the dashboard: events arrive, flushBuffer runs, the
\* statistics timer publishes the counters, the user resets them
NextStats ==
  \/ CoreIngest
  \/ CoreTick
  \/ CoreClock
  \/ ResetStats
  \/ StatsInterval

SpecStats == InitCore /\ [][NextStats]_vars

\* ------------------------------------------------ the hook overloaded
\* thresholds so small that the few keys of the model overload the buffer
OverloadThresholds == {1, 2}

InitOverload == \E T \in OverloadThresholds : InitHook(T)

\* the values of Math.random() that are at least 0.5: throttleLevel * 0.5
\* is at most 0.5, so the skip test fails on them whatever the load is
HighDraws == {rnd \in RandValues : ~FracLess(Frac(rnd, 4), Frac(1, 2))}

\* a tick on which the random skip was not chosen: flushBuffer runs and
\* Math.random() returns one of the values that never skip
NoSkipTick ==
  /\ \E rnd \in HighDraws :
       FlushBuffer(config.bufferIntervalMs, config.throttleThreshold, rnd,
                   EmptyBag, EmptyBag)
  /\ UNCHANGED <<workerVars, toWorker, toMain, config, isRunning,
                 isWorkerReady, now, cmds, uiVars, resetCarry>>

NextOverload ==
  \/ CoreIngest
  \/ CoreTick
  \/ CoreClock

\* time passes, and Math.random() does not return a value that can skip on
\* every tick for ever
SpecOverload ==
  /\ InitOverload /\ [][NextOverload]_vars
  /\ WF_vars(CoreClock)
  /\ WF_vars(NoSkipTick)

\* ------------------------------------------- the event loops keep running
\* the worker's and the core's message handlers
Deliver ==
  \/ WorkerStart
  \/ WorkerStop
  \/ WorkerConfig
  \/ WorkerGetSymbols
  \/ HandleReady
  \/ HandleStatus
  \/ HandleUpdates
  \/ HandleSymbols
  \/ HandleConfigUpdated

\* the browser delivers every posted message, runs every requested frame
\* callback, fires every timer that is due, and time passes
SpecFair ==
  /\ Init /\ [][Next]_vars
  /\ WF_vars(Deliver)
  /\ WF_vars(FrameCallback)
  /\ WF_vars(TimerFire)
  /\ WF_vars(ClockAdvance)

\* ------------------------------------------- configuring the source
\* the partial configurations that concern the worker, the empty one and
\* one that does not concern it
SourcePartials ==
  {[f \in {} |-> 0]}
    \cup {[updatesPerSecond |-> v] : v \in RateValues}
    \cup {[burstEnabled |-> b] : b \in BOOLEAN}
    \cup {[bufferIntervalMs |-> v] : v \in IntervalValues}

\* updateConfig(updates) with updates for the worker
ConfigureSource == \E updates \in SourcePartials : UpdateConfigWith(updates)

\* the hook and the worker without the frame callbacks and timers of the
\* flush loop: commands, the messages of both directions and the worker's
\* interval
NextSource ==
  \/ ConfigureSource
  \/ Start
  \/ Stop
  \/ WorkerEmit
  \/ Deliver

\* the browser delivers every posted message
SpecSource == Init /\ [][NextSource]_vars /\ WF_vars(Deliver)

\* the pending wakes: requested frame callbacks and timers not yet fired
Wakes == BagCardinality(rafPending) + BagCardinality(timers)

\* the frame callbacks whose id rafIdRef holds
LatestFrames(rafs) ==
  LET S == {r \in BagToSet(rafs) : r.latest}
  IN [r \in S |-> CopiesIn(r, rafs)]

\* self.onmessage ran: the worker took the command at the head of its queue
WorkerStep == WorkerStart \/ WorkerStop \/ WorkerConfig \/ WorkerGetSymbols

\* the types of the messages in a channel, in order
Types(ch) == [i \in 1..Len(ch) |-> ch[i].type]

\* ------------------------------------------------- steps the claims name
\* flushBuffer ran in this step: from a timer, or from the flush-loop effect
TickStep ==
  \/ TimerFire
  \/ CoreTick
  \/ HandleStatus /\ isRunning' /\ ~isRunning
  \/ /\ UpdateConfig /\ isRunning
     /\ \/ config'.bufferIntervalMs # config.bufferIntervalMs
        \/ config'.throttleThreshold # config.throttleThreshold

\* a tick that took the flush path (statsRef.rendered grows by the batch)
FlushStep == TickStep /\ lastTick' = "flush"

\* the frame callback requested last (the one rafIdRef refers to)
Armed(rafs) == CHOOSE r \in BagToSet(rafs) : r.latest

EntriesFor(m, k) == {i \in 1..Len(m) : m[i].symbol = k}

\* ------------------------------------------------------------------ C1
\* C1: when N >= 1 events of key k were ingested since the last flush (k had
\* no pending entry when the window began), the next flush applies exactly
\* one update for k - the applied array holds one entry for k and the
\* ticker of k shows it - and the increments of the coalesced counter made
\* for k in that window number exactly N-1.
C1_CoalesceExact ==
  [][FlushStep =>
       \A k \in Symbols :
         IF window[k].count >= 1
           THEN /\ Cardinality(EntriesFor(bufferRef, k)) = 1
                /\ MapHas(tickers', k)
                /\ MapGet(tickers', k).id = window[k].lastId
                /\ window[k].coalesced = window[k].count - 1
           ELSE /\ EntriesFor(bufferRef, k) = {}
                /\ window[k].coalesced = 0]_vars

\* two events of one key were coalesced in a window and a flush applied them
C1_Witness ==
  /\ lastTick = "flush"
  /\ statsRef.coalesced >= 1
  /\ statsRef.rendered >= 1
  /\ \E k \in Symbols : MapHas(tickers, k) /\ MapGet(tickers, k).id >= 2

C3_FreshestWins ==
  /\ [](\A k \in Symbols : Cardinality(EntriesFor(bufferRef, k)) <= 1)
  /\ [][FlushStep =>
          \A k \in MapKeys(bufferRef) :
            /\ MapHas(tickers', k)
            /\ MapGet(tickers', k).price = window[k].lastPrice
            /\ MapGet(tickers', k).id = window[k].lastId]_vars

\* a flush applied the second of two events of one key with different values
C3_Witness ==
  /\ lastTick = "flush"
  /\ statsRef.coalesced >= 1
  /\ \E k \in Symbols :
       /\ MapHas(tickers, k)
       /\ MapGet(tickers, k).id >= 2
       /\ MapGet(tickers, k).flashDirection # "null"

\* ------------------------------------------------------------------ C4
\* C4: a flush applies exactly the entries the buffer held when it began
\* (every one of them, none applied before, no other ticker touched) and
\* leaves the buffer empty; no other step applies an event to a ticker (only
\* the snapshot replaces values); and an entry leaves the buffer only through
\* a flush or by being replaced by a newer event of its key.
C4_AtomicSwap ==
  [][/\ FlushStep =>
          /\ bufferRef' = <<>>
          /\ \A i \in 1..Len(bufferRef) :
               /\ MapHas(tickers', bufferRef[i].symbol)
               /\ MapGet(tickers', bufferRef[i].symbol).id = bufferRef[i].id
               /\ MapGet(tickers', bufferRef[i].symbol).price = bufferRef[i].price
               /\ bufferRef[i].id > maxApplied
          /\ \A k \in Symbols \ MapKeys(bufferRef) :
               /\ MapHas(tickers', k) = MapHas(tickers, k)
               /\ MapHas(tickers, k) => MapGet(tickers', k) = MapGet(tickers, k)
     /\ ~FlushStep =>
          /\ \A k \in Symbols :
               (MapHas(tickers, k) /\ ~HandleSymbols) =>
                 /\ MapHas(tickers', k)
                 /\ MapGet(tickers', k).id = MapGet(tickers, k).id
                 /\ MapGet(tickers', k).price = MapGet(tickers, k).price
          /\ \A i \in 1..Len(bufferRef) :
               \E j \in 1..Len(bufferRef') :
                 /\ bufferRef'[j].symbol = bufferRef[i].symbol
                 /\ bufferRef'[j].id >= bufferRef[i].id]_vars

\* a flush has emptied the buffer and a later event is pending again
C4_Witness ==
  /\ lastTick = "flush"
  /\ maxApplied >= 1
  /\ bufferRef # <<>>

\* ------------------------------------------------------------------ C5
\* C5: once the core's run state is false, no scheduler tick executes: a
\* pending wake never runs flushBuffer while isRunning is false, whether it
\* was at the frame-callback stage or at the timer stage when stop took
\* effect.
C5_NoTickAfterStop == [][TimerFire => isRunning]_vars

\* ------------------------------------------------------------------ C6
\* C6: the worker emits no 'updates' message while it is stopped: no live
\* emission timer exists while isRunning is false in the worker, and no
\* message in flight to the core was emitted in a stopped period - so no
\* such update is ever ingested or applied.
C6_NoEmitWhileStopped ==
  /\ ~wIsRunning => wTimers = 0
  /\ \A i \in 1..Len(toMain) :
       toMain[i].type = "updates" => ~toMain[i].afterStop

\* the worker ran, emitted, and has processed a stop
C6_Witness ==
  /\ ~wIsRunning
  /\ nextId > 1
  /\ \E i \in 1..Len(toMain) :
       toMain[i].type = "status" /\ ~toMain[i].running

\* ------------------------------------------------------------------ C7
\* C7: a stop received while stopped and a start received while running
\* change no worker state, create or clear no timer and post no message;
\* at most one emission timer is ever live.
C7_Idempotent ==
  /\ [](wTimers <= 1)
  /\ [][(WorkerStop /\ ~wIsRunning) => UNCHANGED <<workerVars, toMain>>]_vars
  /\ [][(WorkerStart /\ wIsRunning) => UNCHANGED <<workerVars, toMain>>]_vars

\* a second start is about to be received by the running worker
C7_Witness ==
  /\ wIsRunning
  /\ wTimers = 1
  /\ cmds = 2
  /\ toWorker # <<>>
  /\ Head(toWorker).type = "start"

\* ------------------------------------------------------------------ C8
\* C8: any two successful flushes are separated by at least the configured
\* bufferIntervalMs.
C8_MinInterval ==
  [][(FlushStep /\ lastFlushRef > 0) =>
       now - lastFlushRef >= config'.bufferIntervalMs]_vars

\* ------------------------------------------------------------------ C9
\* C9: a tick skips the cycle only when throttleLevel > 0.5, that is
\* bufferSize > 0.75 * threshold; the skipped cycle leaves the buffer, the
\* tickers, the counters, the last-flush time and the published
\* ThrottleState as they were and arms the next wake (a frame callback that
\* will set the timer for the full interval).
C9_SkipFrame ==
  [][(TickStep /\ lastTick' = "skip") =>
       /\ 4 * Len(bufferRef) > 3 * Armed(rafPending').threshold
       /\ UNCHANGED <<bufferRef, tickers, statsRef, lastFlushRef, stats>>
       /\ rafIdRef'
       /\ Armed(rafPending').delay = Armed(rafPending').interval]_vars

\* a tick was skipped with entries pending
C9_Witness ==
  /\ lastTick = "skip"
  /\ bufferRef # <<>>
  /\ \E r \in BagToSet(rafPending) : r.latest

\* ----------------------------------------------------------------- C10
\* C10: for a fixed positive threshold, throttleLevel never decreases when
\* bufferSize does not decrease (checked over every pair of buffer sizes).
C10_Monotone ==
  [][stats'.bufferSize >= stats.bufferSize =>
       ~FracLess(stats'.throttleLevel, stats.throttleLevel)]_vars

\* a level strictly between 0 and 1 was computed
C10_Witness ==
  /\ stats.bufferSize > 0
  /\ FracLess(Frac(0, 1), stats.throttleLevel)
  /\ FracLess(stats.throttleLevel, Frac(1, 1))

C13_Direction ==
  [][FlushStep =>
       \A i \in 1..Len(bufferRef) :
         LET e == bufferRef[i]
             k == e.symbol
             prior == IF MapHas(tickers, k) THEN MapGet(tickers, k).price
                      ELSE e.price
             t == MapGet(tickers', k)
         IN /\ t.price = e.price
            /\ t.previousPrice = prior
            /\ t.flashDirection = "up" <=> e.price > prior
            /\ t.flashDirection = "down" <=> e.price < prior
            /\ t.flashDirection = "null" <=> e.price = prior
            /\ ~MapHas(tickers, k) => t.flashDirection = "null"]_vars

\* the scenario: events 100 then 105 of AAPL coalesced in one window, the
\* flush shows 105 with the prior stored price 100 and the flag up
C13_Witness ==
  /\ lastTick = "flush"
  /\ statsRef.coalesced >= 1
  /\ MapHas(tickers, "AAPL")
  /\ MapGet(tickers, "AAPL").price = 105
  /\ MapGet(tickers, "AAPL").id >= 2
  /\ MapGet(tickers, "AAPL").previousPrice = 100
  /\ MapGet(tickers, "AAPL").flashDirection = "up"

\* ----------------------------------------------------------------- C14
\* C14: the visible range never has startIndex > endIndex, and endIndex -
\* startIndex <= ceil(containerHeight / rowHeight) + 2 * overscan, for every
\* scroll position (also beyond the end of the list) and every item count
\* (also 0).
C14_RangeOrdered ==
  /\ Range.startIndex <= Range.endIndex
  /\ Range.endIndex - Range.startIndex <=
       ((view.containerHeight + config.rowHeight - 1) \div config.rowHeight)
         + 2 * view.overscan

\* ----------------------------------------------------------------- C15
\* C15: updateConfig({}) leaves every field of the configuration unchanged,
\* and a configure that leaves the configuration unchanged has no side
\* effect: nothing is posted to the worker, no frame callback or timer is
\* cancelled or requested, no tick runs, and buffer, tickers, counters and
\* published statistics stay as they were.
C15_EmptyConfigure ==
  /\ [][(UpdateConfig /\ sawEmptyConfig' # sawEmptyConfig) =>
          config' = config]_vars
  /\ [][(UpdateConfig /\ config' = config) =>
          UNCHANGED <<toWorker, toMain, workerVars, loopVars, coreData,
                      isRunning, isWorkerReady, now, tickHistory>>]_vars

\* updateConfig({}) was called while the flush loop was running with a wake
\* pending and the worker ready
C15_Witness ==
  /\ sawEmptyConfig
  /\ isRunning
  /\ isWorkerReady
  /\ rafPending # EmptyBag \/ timers # EmptyBag

\* ----------------------------------------------------------------- C16
\* C16: no step lowers received, rendered or coalesced except resetStats,
\* and resetStats sets all three to 0.
C16_CountersMonotone ==
  [][/\ (\/ statsRef'.received < statsRef.received
         \/ statsRef'.rendered < statsRef.rendered
         \/ statsRef'.coalesced < statsRef.coalesced) => ResetStats
     /\ ResetStats =>
          statsRef' = [received |-> 0, rendered |-> 0, coalesced |-> 0]]_vars

\* the counters were reset after events had been received, and an event
\* received since then has been rendered
C16_Witness ==
  /\ resetCarry >= 1
  /\ statsRef.received = 1
  /\ statsRef.rendered = 1

ClockValues == {i * DecayIntervalMs : i \in 0..MaxClockTicks}

\* ----------------------------------------------------------------- C18
\* C18: a decay pass changes an entry only by clearing a flag that is up or
\* down and at least 600 ms old (now - lastUpdated >= 600); every other
\* field, every entry whose flag is none, and the order and number of
\* entries stay as they were.
C18_DecaySafe ==
  [][DecayPass =>
       /\ Len(tickers') = Len(tickers)
       /\ \A i \in 1..Len(tickers) :
            \/ tickers'[i] = tickers[i]
            \/ /\ tickers[i].flashDirection # "null"
               /\ now - tickers[i].lastUpdated >= FlashMs
               /\ tickers'[i] = [tickers[i] EXCEPT !.flashDirection = "null"]]_vars

\* a pass has cleared the expired flash of one entry and left the younger
\* flash of another entry alone
C18_Witness ==
  /\ \E i \in 1..Len(tickers) :
       /\ tickers[i].id # Absent
       /\ tickers[i].price # tickers[i].previousPrice
       /\ tickers[i].flashDirection = "null"
       /\ now - tickers[i].lastUpdated > FlashMs
  /\ \E i \in 1..Len(tickers) :
       /\ tickers[i].flashDirection # "null"
       /\ now - tickers[i].lastUpdated <= FlashMs

\* ----------------------------------------------------------------- C19
\* C19: a flag that is up or down does not stay: unless a later flush or
\* snapshot writes the entry again, the flag becomes none.  (The clock of
\* the model stops at MaxClockTicks * 200 ms, so the property is stated for
\* the flashes that start early enough for a pass to see them expired.)
C19_FlagsDecay ==
  \A k \in Symbols : \A t \in ClockValues :
    (/\ MapHas(tickers, k)
     /\ MapGet(tickers, k).flashDirection # "null"
     /\ MapGet(tickers, k).lastUpdated = t
     /\ t + FlashMs + DecayIntervalMs <= MaxClockTicks * DecayIntervalMs)
      ~> (/\ MapHas(tickers, k)
          /\ \/ MapGet(tickers, k).flashDirection = "null"
             \/ MapGet(tickers, k).lastUpdated # t)

\* a flash was cleared by the first decay pass that saw it older than 600 ms
C19_Witness ==
  /\ \E i \in 1..Len(tickers) :
       /\ now - tickers[i].lastUpdated = FlashMs + DecayIntervalMs
       /\ tickers[i].id # Absent
       /\ tickers[i].price # tickers[i].previousPrice
       /\ tickers[i].flashDirection = "null"

\* ----------------------------------------------------------------- C20
\* C20: an event without key or without value is dropped: it is never an
\* entry of the buffer and never creates or changes a ticker.
C20_MalformedDropped ==
  /\ \A i \in 1..Len(bufferRef) :
       bufferRef[i].symbol # NoKey /\ bufferRef[i].price # Absent
  /\ \A i \in 1..Len(tickers) :
       tickers[i].symbol # NoKey /\ tickers[i].price # Absent

\* ----------------------------------------------------------------- C21
\* C21: every reachable configuration has its fields in their valid ranges:
\* bufferIntervalMs and throttleThreshold are positive whatever values the
\* configure calls carried (an out-of-bounds value is clamped, not stored).
C21_ConfigClamped ==
  /\ config.bufferIntervalMs >= 1
  /\ config.throttleThreshold >= 1

\* ----------------------------------------------------------------- C22
\* C22: the core reports not-ready until it has handled the ready message,
\* and no command issued while not ready is lost: start and stop are posted
\* to the worker's queue, the queue loses nothing (only the worker removes a
\* command, the one at its head, and a start or stop it takes sets its run
\* state), and the values set by configure are posted when ready arrives and
\* become the worker's configuration when it takes that message.
C22_NotReadyCommands ==
  /\ []((\E i \in 1..Len(toMain) : toMain[i].type = "ready") => ~isWorkerReady)
  /\ [][isWorkerReady' # isWorkerReady => (HandleReady /\ isWorkerReady')]_vars
  /\ [][(Start /\ ~isWorkerReady) =>
          toWorker' = Append(toWorker, Cmd("start", config))]_vars
  /\ [][(Stop /\ ~isWorkerReady) =>
          toWorker' = Append(toWorker, Cmd("stop", config))]_vars
  /\ [][(UpdateConfig /\ ~isWorkerReady) =>
          \E updates \in Partials : config' = Merge(config, updates)]_vars
  /\ [][(HandleReady /\ ~isWorkerReady) =>
          /\ Len(toWorker') = Len(toWorker) + 2
          /\ toWorker'[Len(toWorker')] = Cmd("config", config)]_vars
  /\ [][IF WorkerStep
          THEN /\ toWorker' = Tail(toWorker)
               /\ Head(toWorker).type = "start" => wIsRunning'
               /\ Head(toWorker).type = "stop" => ~wIsRunning'
               /\ Head(toWorker).type = "config" =>
                    /\ wConfig'.updatesPerSecond =
                         Head(toWorker).updatesPerSecond
                    /\ wConfig'.burstEnabled = Head(toWorker).burstEnabled
          ELSE /\ Len(toWorker') >= Len(toWorker)
               /\ SubSeq(toWorker', 1, Len(toWorker)) = toWorker]_vars

\* a start and a configure were issued before the core handled ready: the
\* worker took the start before the getSymbols of the ready handler (its
\* status precedes the snapshot) and runs, and the one config message it got
\* (posted when ready was handled) carried the configured rate
C22_Witness ==
  /\ isWorkerReady
  /\ cmds = 2
  /\ toWorker = <<>>
  /\ Types(toMain) = <<"status", "symbols", "configUpdated">>
  /\ wIsRunning
  /\ wConfig.updatesPerSecond = 200
  /\ config.updatesPerSecond = 200

\* ----------------------------------------------------------------- C23
\* C23: after every scheduler tick, whichever path it took, the published
\* ThrottleState equals the evaluation of the buffer size the tick found
\* against the configured threshold.
C23_StatsEveryTick ==
  [][CoreTick =>
       stats' = Evaluate(Len(bufferRef), config.throttleThreshold)]_vars

\* ----------------------------------------------------------------- C24
\* C24: the dashboard shows efficiency 100% and coalesce rate 100% when
\* totalReceived = 0, and totalRendered / totalReceived and coalesced /
\* totalReceived (as percentages with one decimal) when totalReceived > 0.
C24_Ratios ==
  IF totals.totalReceived = 0
    THEN Efficiency(totals) = 1000 /\ CoalesceRate(totals) = 1000
    ELSE /\ Efficiency(totals) =
              Percent(totals.totalRendered, totals.totalReceived)
         /\ CoalesceRate(totals) =
              Percent(totals.coalesced, totals.totalReceived)

\* ----------------------------------------------------------------- C25
\* C25: the flush loop never dies while the stream runs: every scheduler
\* tick, whichever of its paths it takes, requests exactly one frame
\* callback (a tick from a timer consumes one wake and arms one); while
\* isRunning a wake is always pending; every requested frame callback runs
\* (or is cancelled by an effect that ticks at once), and every timer set
\* while running fires, which is the next tick.  (The clock of the model
\* stops at MaxTime, so the timers are those due by then.)
C25_LoopAlive ==
  /\ [][TickStep =>
          /\ BagCardinality(LatestFrames(rafPending')) = 1
          /\ rafIdRef'
          /\ lastTick' \in {"skip", "defer", "empty", "flush"}]_vars
  /\ [][TimerFire => Wakes' = Wakes]_vars
  /\ [](isRunning => Wakes >= 1)
  /\ (isRunning /\ rafPending # EmptyBag) ~> (rafPending = EmptyBag)
  /\ \A d \in 0..MaxTime :
       (isRunning /\ \E t \in BagToSet(timers) : t.due = d)
         ~> (now >= d /\ ~\E t \in BagToSet(timers) : t.due = d)

\* the loop has ticked on the deferred, the flushed and the empty path in
\* turn and its next wake is pending
C25_Witness ==
  /\ isRunning
  /\ now = MaxTime
  /\ lastTick = "empty"
  /\ statsRef.rendered >= 1
  /\ Wakes = 1

\* ----------------------------------------------------------------- C26
\* C26: under overload the buffer still drains: while the stream runs, and
\* if the random skip is not chosen for ever, every entry of the buffer is
\* eventually applied to the tickers by a flush, or a newer event of its key
\* is.  (The clock of the model stops at MaxClockTicks * 200 ms; an entry
\* ingested at that last instant right after a flush has no later tick
\* that the minimum interval allows, so the property is stated for the
\* entries for which the minimum interval can still elapse.)
C26_Drains ==
  \A k \in Symbols : \A id \in 1..MaxCoreEvents :
    (/\ isRunning
     /\ MapHas(bufferRef, k)
     /\ MapGet(bufferRef, k).id = id
     /\ \/ now < MaxClockTicks * DecayIntervalMs
        \/ ~TooSoon(config.bufferIntervalMs))
      ~> (/\ MapHas(tickers, k)
          /\ MapGet(tickers, k).id >= id
          /\ ~(MapHas(bufferRef, k) /\ MapGet(bufferRef, k).id = id))

\* a pending entry was replaced by a newer event of its key while the
\* buffer was fully throttled (a skip was possible on every tick), and a
\* flush applied the newer event
C26_Witness ==
  /\ lastTick = "flush"
  /\ stats.throttleLevel = Frac(1, 1)
  /\ stats.isThrottling
  /\ statsRef.coalesced >= 1
  /\ bufferRef = <<>>
  /\ maxApplied = MaxCoreEvents

\* ----------------------------------------------------------------- C27
\* C27: at most one flush loop exists: in every reachable state at most one
\* wake (frame callback or timer) is pending, and none while the stream is
\* stopped.
C27_SingleLoop ==
  /\ Wakes <= 1
  /\ ~isRunning => Wakes = 0

\* ----------------------------------------------------------------- C28
\* C28: every scheduler tick uses the bufferIntervalMs and throttleThreshold
\* configured when it begins (each handler runs to completion, so no tick is
\* executing when a configure call takes effect): the closure that ticks,
\* and re-arms itself, holds the values of the current configuration.
C28_CurrentConfig ==
  [][TickStep =>
       /\ Armed(rafPending').interval = config'.bufferIntervalMs
       /\ Armed(rafPending').threshold = config'.throttleThreshold]_vars

\* ----------------------------------------------------------------- C29
\* C29: in every reachable state rendered <= received and coalesced <=
\* received, for the counters and for the totals the dashboard shows, so
\* the efficiency and the coalesce rate shown never exceed 100%.
C29_RatiosBounded ==
  /\ statsRef.rendered <= statsRef.received
  /\ statsRef.coalesced <= statsRef.received
  /\ totals.totalRendered <= totals.totalReceived
  /\ totals.coalesced <= totals.totalReceived
  /\ Efficiency(totals) <= 1000
  /\ CoalesceRate(totals) <= 1000

C32_WindowCovers ==
  LET itemCount == Len(tickers)
      rowHeight == config.rowHeight
      maxOffset == MaxOf({0, itemCount * rowHeight - view.containerHeight})
  IN view.scrollTop <= maxOffset =>
       /\ \A i \in 0..(itemCount - 1) :
            (/\ i * rowHeight < view.scrollTop + view.containerHeight
             /\ (i + 1) * rowHeight > view.scrollTop)
              => (Range.startIndex <= i /\ i < Range.endIndex)
       /\ Range.offsetY = Range.startIndex * rowHeight

\* ----------------------------------------------------------------- C31
\* C31: once the worker is ready and configure calls have stopped, the
\* worker's updatesPerSecond and burstEnabled eventually equal the core's
\* and stay equal, also for configure calls made before ready was handled;
\* handling a config message sets the fields the message names to the
\* message's values and leaves every other field of the worker's config as
\* it was, and nothing else changes the worker's config.
C31_ConfigReaches ==
  /\ <>[](/\ isWorkerReady
          /\ wConfig.updatesPerSecond = config.updatesPerSecond
          /\ wConfig.burstEnabled = config.burstEnabled)
  /\ [][IF WorkerConfig
          THEN LET params == Params(Head(toWorker))
               IN /\ DOMAIN wConfig' = DOMAIN wConfig
                  /\ \A f \in DOMAIN wConfig :
                       wConfig'[f] = IF f \in DOMAIN params THEN params[f]
                                     ELSE wConfig[f]
          ELSE wConfig' = wConfig]_vars

\* the rate and the burst flag were both configured before the core handled
\* ready; the one config message posted when ready was handled carried both
\* to the worker, whose burstMultiplier is as it was
C31_Witness ==
  /\ isWorkerReady
  /\ cmds = MaxCmds
  /\ toWorker = <<>>
  /\ Types(toMain) = <<"symbols", "configUpdated">>
  /\ config.updatesPerSecond = 200
  /\ config.burstEnabled
  /\ wConfig = [updatesPerSecond |-> 200, burstEnabled |-> TRUE,
                burstMultiplier |-> BurstMultiplier]

====
